---- MODULE Spec2Model ----
(***************************************************************************)
(* Window synchronisation systems of bevy_winit_hook (src/src/system.rs):  *)
(* create_windows, changed_windows, changed_hooks and despawn_windows, run  *)
(* once per cycle over the Window records of an entity store, a registry   *)
(* of native windows (WinitWindows) and the snapshot components the file   *)
(* declares, CachedWindow and Cached<T>.                                   *)
(*                                                                         *)
(* An optional component is a sequence of length 0 (absent) or 1.          *)
(***************************************************************************)
EXTENDS Integers, Sequences, FiniteSets, TLC

\* ------------------------------------------------------------------ bounds
MaxOps == 3

\* One window entity: the loops of the systems treat entities one by one.
Entities == {1}

None == <<>>
Some(x) == <<x>>

\* ------------------------------------------------------------ Window record
Titles == {"a", "b"}
Modes == {"Windowed", "BorderlessFullscreen", "Fullscreen", "SizedFullscreen"}
Sizes == {1, 2}
Themes == {"none", "Dark"}

\* Values of the auxiliary component T: WindowHook.
Hooks == {1, 2}

\* The fields of bevy_window::Window that changed_windows special-cases, plus
\* title and window_theme for the plain "set on diff" fields (cursor icon,
\* grab mode, cursor visibility, enabled buttons, resize constraints,
\* position, window level, the IME fields and visible follow the pattern of
\* title before the one-shot requests and of window_theme after them).
\* cursor_position 0 is None; a request is "none" or the requested value.
DefaultWindow ==
    [ title |-> "a", mode |-> "Windowed",
      resolution |-> [size |-> 1, scale |-> 1],
      cursor_position |-> 0, hit_test |-> TRUE,
      decorations |-> TRUE, resizable |-> TRUE,
      maximize_request |-> "none", minimize_request |-> "none",
      focused |-> TRUE, transparent |-> FALSE,
      window_theme |-> "none" ]

\* The records one assignment to a field of w can give.
Mutations(w) ==
    {[w EXCEPT !.title = t] : t \in Titles}
    \cup {[w EXCEPT !.mode = m] : m \in Modes}
    \cup {[w EXCEPT !.resolution.size = s] : s \in Sizes}
    \cup {[w EXCEPT !.cursor_position = p] : p \in {0, 1}}
    \cup {[w EXCEPT !.hit_test = b] : b \in BOOLEAN}
    \cup {[w EXCEPT !.decorations = b] : b \in BOOLEAN}
    \cup {[w EXCEPT !.resizable = b] : b \in BOOLEAN}
    \cup {[w EXCEPT !.maximize_request = "true"]}
    \cup {[w EXCEPT !.minimize_request = "true"]}
    \cup {[w EXCEPT !.focused = b] : b \in BOOLEAN}
    \cup {[w EXCEPT !.transparent = b] : b \in BOOLEAN}
    \cup {[w EXCEPT !.window_theme = t] : t \in Themes}

\* Answers of the native layer during one changed_windows pass:
\* monitor   - current_monitor() is Some
\* grant     - request_inner_size answers Some(grant); 0 is None
\* cursor_ok - set_cursor_position returns Ok
\* hittest_ok - set_cursor_hittest returns Ok
PassEnvs ==
    [monitor : BOOLEAN, grant : {0} \cup Sizes, cursor_ok : BOOLEAN,
     hittest_ok : BOOLEAN]

NoEnv == [monitor |-> TRUE, grant |-> 0, cursor_ok |-> TRUE, hittest_ok |-> TRUE]

\* Answers of the native layer at creation: theme() (none is None) and
\* scale_factor().
CreateEnvs == [theme : Themes, scale : {1, 2}]

VARIABLES
    window,          \* Window component per entity
    cachedWindow,    \* CachedWindow component per entity
    cache,           \* Cached<Window> component per entity
    winit_windows,   \* registry: native window state per entity
    alive,           \* entities not despawned
    changed,         \* Changed<Window> as seen by changed_windows
    added,           \* Added<Window> as seen by create_windows
    removed,         \* RemovedComponents<Window> not yet read
    stage, ops,
    created_events,  \* WindowCreated sent, per entity
    closed_events,   \* WindowClosed sent, per entity
    create_calls,    \* native creations, per entity
    destroy_calls,   \* native destructions, per entity
    calls,           \* native calls of the last changed_windows pass
    warnings,        \* warn!/error! of the last changed_windows pass
    resized,         \* WindowResized sent by the last changed_windows pass
    env,             \* native answers of the last changed_windows pass
    flagged,         \* entities with record, handle and change flag at it
    prevPass,        \* record as the previous pass left it (handle live)
    repeat,          \* flagged entities whose record the previous pass left
    spurious,        \* removals the last despawn_windows treated as spurious
    skipped,         \* entities the last create_windows skipped
    hook,            \* the auxiliary component T per entity
    hookCache,       \* Cached<T> component per entity
    hook_changed,    \* Changed<T> as seen by changed_hooks
    hook_calls       \* changed_hook calls of the last changed_hooks pass

vars ==
    << window, cachedWindow, cache, winit_windows, alive, changed, added,
       removed, stage, ops, created_events, closed_events,
       create_calls, destroy_calls, calls, warnings, resized, env, flagged,
       prevPass, repeat, spurious, skipped, hook, hookCache, hook_changed,
       hook_calls >>

logs == << calls, warnings, resized, env, flagged, prevPass, repeat, skipped >>

hookvars == << hook, hookCache, hook_changed, hook_calls >>

Init ==
    /\ window = [e \in Entities |-> None]
    /\ cachedWindow = [e \in Entities |-> None]
    /\ cache = [e \in Entities |-> None]
    /\ winit_windows = [e \in Entities |-> None]
    /\ alive = Entities
    /\ changed = {}
    /\ added = {}
    /\ removed = <<>>
    /\ stage = "app"
    /\ ops = 0
    /\ created_events = [e \in Entities |-> 0]
    /\ closed_events = [e \in Entities |-> 0]
    /\ create_calls = [e \in Entities |-> 0]
    /\ destroy_calls = [e \in Entities |-> 0]
    /\ calls = <<>>
    /\ warnings = <<>>
    /\ resized = <<>>
    /\ env = NoEnv
    /\ flagged = {}
    /\ prevPass = [e \in Entities |-> None]
    /\ repeat = {}
    /\ spurious = {}
    /\ skipped = {}
    /\ hook = [e \in Entities |-> None]
    /\ hookCache = [e \in Entities |-> None]
    /\ hook_changed = {}
    /\ hook_calls = <<>>

\* ------------------------------------------------------------- entity store
Range(s) == {s[i] : i \in 1..Len(s)}
Count(s, e) == Cardinality({i \in 1..Len(s) : s[i] = e})

Budget == stage = "app" /\ ops < MaxOps

\* The application inserts a Window component on an entity that has none.
AppInsertWindow(e) ==
    /\ Budget
    /\ e \in alive
    /\ window[e] = None
    /\ window' = [window EXCEPT ![e] = Some(DefaultWindow)]
    /\ added' = added \cup {e}
    /\ changed' = changed \cup {e}
    /\ ops' = ops + 1
    /\ spurious' = {}
    /\ UNCHANGED << cachedWindow, cache, winit_windows, alive, removed, stage,
                    created_events, closed_events, create_calls,
                    destroy_calls, logs, hookvars >>

\* The application removes the Window component and keeps the entity.
AppRemoveWindow(e) ==
    /\ Budget
    /\ window[e] # None
    /\ window' = [window EXCEPT ![e] = None]
    /\ removed' = Append(removed, e)
    /\ ops' = ops + 1
    /\ spurious' = {}
    /\ UNCHANGED << cachedWindow, cache, winit_windows, alive, changed, added,
                    stage, created_events, closed_events, create_calls,
                    destroy_calls, logs, hookvars >>

\* The application despawns the entity: every component goes, and the
\* identifier is never used again.
AppDespawn(e) ==
    /\ Budget
    /\ e \in alive
    /\ window[e] # None
    /\ alive' = alive \ {e}
    /\ window' = [window EXCEPT ![e] = None]
    /\ cachedWindow' = [cachedWindow EXCEPT ![e] = None]
    /\ cache' = [cache EXCEPT ![e] = None]
    /\ removed' = Append(removed, e)
    /\ ops' = ops + 1
    /\ spurious' = {}
    /\ hook' = [hook EXCEPT ![e] = None]
    /\ hookCache' = [hookCache EXCEPT ![e] = None]
    /\ hook_changed' = hook_changed \ {e}
    /\ UNCHANGED << winit_windows, changed, added, stage, created_events,
                    closed_events, create_calls, destroy_calls, logs,
                    hook_calls >>

\* The application takes the Window mutably, which raises its change flag,
\* and leaves its value as it is.
AppTouch(e) ==
    /\ stage = "app"
    /\ window[e] # None
    /\ e \notin changed
    /\ changed' = changed \cup {e}
    /\ spurious' = {}
    /\ UNCHANGED << window, cachedWindow, cache, winit_windows, alive, added,
                    removed, stage, ops, created_events, closed_events,
                    create_calls, destroy_calls, logs, hookvars >>

\* The application takes the Window mutably and changes one field.
AppMutate(e) ==
    /\ Budget
    /\ window[e] # None
    /\ \E w \in Mutations(window[e][1]) \ {window[e][1]} :
           window' = [window EXCEPT ![e] = Some(w)]
    /\ changed' = changed \cup {e}
    /\ ops' = ops + 1
    /\ spurious' = {}
    /\ UNCHANGED << cachedWindow, cache, winit_windows, alive, added, removed,
                    stage, created_events, closed_events, create_calls,
                    destroy_calls, logs, hookvars >>

\* The application removes the Window component and inserts a fresh one in
\* the same batch of commands: one removal notification, one addition.
AppReplaceWindow(e) ==
    /\ Budget
    /\ window[e] # None
    /\ window' = [window EXCEPT ![e] = Some(DefaultWindow)]
    /\ removed' = Append(removed, e)
    /\ added' = added \cup {e}
    /\ changed' = changed \cup {e}
    /\ ops' = ops + 1
    /\ spurious' = {}
    /\ UNCHANGED << cachedWindow, cache, winit_windows, alive, stage,
                    created_events, closed_events, create_calls,
                    destroy_calls, logs, hookvars >>

\* The application inserts the auxiliary component on a window entity or
\* assigns it a new value.
AppSetHook(e) ==
    /\ Budget
    /\ window[e] # None
    /\ \E h \in Hooks \ Range(hook[e]) : hook' = [hook EXCEPT ![e] = Some(h)]
    /\ hook_changed' = hook_changed \cup {e}
    /\ ops' = ops + 1
    /\ spurious' = {}
    /\ UNCHANGED << window, cachedWindow, cache, winit_windows, alive, changed,
                    added, removed, stage, created_events, closed_events,
                    create_calls, destroy_calls, logs, hookCache, hook_calls >>

\* The application's part of the cycle ends; the stages run.
AppDone ==
    /\ stage = "app"
    /\ stage' = "create"
    /\ spurious' = {}
    /\ UNCHANGED << window, cachedWindow, cache, winit_windows, alive, changed,
                    added, removed, ops, created_events, closed_events,
                    create_calls, destroy_calls, logs, hookvars >>

\* ---------------------------------------------------------- WinitWindows
get_window(e) == winit_windows[e]

\* WinitWindows::create_window: the native window is built from the record.
NativeFrom(w) ==
    [w EXCEPT !.maximize_request = "none", !.minimize_request = "none"]

\* A variant that answers a missing entry by making a default one.
remove_window_or_default(reg, e) ==
    [reg EXCEPT ![e] = IF @ = None THEN Some(NativeFrom(DefaultWindow)) ELSE None]

\* WinitWindows::remove_window: dropping an absent entry does nothing.
remove_window(reg, e) == [reg EXCEPT ![e] = None]

\* ---------------------------------------------------------- create_windows
\* The created_windows query under the caller's filter F: every record, the
\* added ones, or a filter this record does not pass.
CreatedQuery(filt) ==
    {e \in Entities :
        window[e] # None /\ (filt = "all" \/ (filt = "added" /\ e \in added))}

\* A variant that never finds the identifier registered.
AlreadyCreated_never(e) == FALSE

\* `if winit_windows.get_window(entity).is_some() { continue; }`
AlreadyCreated(e) == get_window(e) # None

\* The record after the native theme and scale factor are read back.
ReadBack(w, cenv) ==
    [w EXCEPT !.window_theme = IF cenv.theme # "none" THEN cenv.theme ELSE @,
              !.resolution.scale = cenv.scale]

\* A variant that clones the record before the native values are read back.
InsertedCachedWindow_early(w, cenv) == w

\* `.insert(CachedWindow { window: window.clone() })`, after the read-back.
InsertedCachedWindow(w, cenv) == ReadBack(w, cenv)

create_windows ==
    /\ stage = "create"
    /\ \E filt \in {"added", "all", "unmatched"}, cenv \in CreateEnvs :
         LET q == CreatedQuery(filt)
             New == {e \in q : ~AlreadyCreated(e)}
             W(e) == ReadBack(window[e][1], cenv)
         IN  /\ winit_windows' =
                  [e \in Entities |->
                      IF e \in New THEN Some(NativeFrom(W(e))) ELSE winit_windows[e]]
             /\ window' =
                  [e \in Entities |-> IF e \in New THEN Some(W(e)) ELSE window[e]]
             /\ cachedWindow' =
                  [e \in Entities |->
                      IF e \in New
                      THEN Some(InsertedCachedWindow(window[e][1], cenv))
                      ELSE cachedWindow[e]]
             /\ created_events' =
                  [e \in Entities |-> created_events[e] + IF e \in New THEN 1 ELSE 0]
             /\ create_calls' =
                  [e \in Entities |-> create_calls[e] + IF e \in New THEN 1 ELSE 0]
             /\ changed' = changed \cup New
             /\ skipped' = q \ New
    /\ added' = {}
    /\ stage' = "changed"
    /\ UNCHANGED << cache, alive, removed, ops, closed_events,
                    destroy_calls, calls, warnings, resized, env, flagged,
                    prevPass, repeat, spurious, hookvars >>

\* --------------------------------------------------------- despawn_windows
\* A variant of the guard that never finds the record.
window_entities_contains_never(e) == FALSE

\* `window_entities.contains(window)`
window_entities_contains(e) == window[e] # None

\* The removal notifications that pass the guard.
Closing == {e \in Range(removed) : ~window_entities_contains(e)}

\* A variant of the loop without the remove_window call.
despawn_registry_kept == winit_windows

\* The registry after the loop: remove_window for each removal that passes.
despawn_registry ==
    [e \in Entities |->
        IF e \in Closing THEN remove_window(winit_windows, e)[e] ELSE winit_windows[e]]

despawn_windows ==
    /\ stage = "despawn"
    /\ winit_windows' = despawn_registry
    /\ closed_events' =
         [e \in Entities |->
             closed_events[e] + IF e \in Closing THEN Count(removed, e) ELSE 0]
    /\ destroy_calls' =
         [e \in Entities |->
             destroy_calls[e]
               + IF winit_windows[e] # None /\ winit_windows'[e] = None THEN 1 ELSE 0]
    /\ spurious' = Range(removed) \ Closing
    /\ removed' = <<>>
    /\ prevPass' =
         [e \in Entities |-> IF winit_windows'[e] = None THEN None ELSE prevPass[e]]
    /\ env' = NoEnv
    /\ flagged' = {}
    /\ repeat' = {}
    /\ hook_calls' = <<>>
    /\ stage' = "app"
    /\ UNCHANGED << window, cachedWindow, cache, alive, changed, added, ops,
                    created_events, create_calls, calls, warnings, resized,
                    skipped, hook, hookCache, hook_changed >>

\* --------------------------------------------------------- changed_windows
\* One iteration of the loop works on s = [w, n, calls, warns, resized]: the
\* record, the native window, and what the iteration has called, logged and
\* sent so far; c is the `cache` item of the query and pe the native answers.
Call(s, e, name) == [s EXCEPT !.calls = Append(@, [w |-> e, call |-> name])]
Warn(s, e, text) == [s EXCEPT !.warns = Append(@, [w |-> e, text |-> text])]

StepTitle(s, c, e) ==
    IF s.w.title # c.title
    THEN [Call(s, e, "set_title") EXCEPT !.n.title = s.w.title]
    ELSE s

\* new_mode is Some(..) unless an exclusive mode finds no current monitor.
NewModeKnown(w, pe) ==
    IF w.mode \in {"Fullscreen", "SizedFullscreen"} THEN pe.monitor ELSE TRUE

StepMode(s, c, e, pe) ==
    IF s.w.mode # c.mode
    THEN IF NewModeKnown(s.w, pe)
         THEN IF s.n.mode # s.w.mode
              THEN [Call(s, e, "set_fullscreen") EXCEPT !.n.mode = s.w.mode]
              ELSE s
         ELSE Warn(s, e, "no current monitor")
    ELSE s

\* crate::react_to_resize: the record takes the size the native layer
\* reports and WindowResized is sent.
react_to_resize(s, e, size_now) ==
    [s EXCEPT !.w.resolution.size = size_now,
              !.resized = Append(@, [w |-> e, size |-> size_now])]

StepResolution(s, c, e, pe) ==
    IF s.w.resolution # c.resolution
    THEN LET s1 == Call(s, e, "request_inner_size")
         IN  IF pe.grant # 0
             THEN react_to_resize([s1 EXCEPT !.n.resolution.size = pe.grant],
                                  e, pe.grant)
             ELSE s1
    ELSE s

StepCursorPosition(s, c, e, pe) ==
    IF s.w.cursor_position # c.cursor_position /\ s.w.cursor_position # 0
    THEN LET s1 == Call(s, e, "set_cursor_position")
         IN  IF pe.cursor_ok
             THEN [s1 EXCEPT !.n.cursor_position = s.w.cursor_position]
             ELSE Warn(s1, e, "could not set cursor position")
    ELSE s

StepHitTest(s, c, e, pe) ==
    IF s.w.hit_test # c.hit_test
    THEN LET s1 == Call(s, e, "set_cursor_hittest")
         IN  IF pe.hittest_ok
             THEN [s1 EXCEPT !.n.hit_test = s.w.hit_test]
             ELSE Warn([s1 EXCEPT !.w.hit_test = c.hit_test], e,
                       "could not set cursor hit test")
    ELSE s

StepDecorations(s, c, e) ==
    IF s.w.decorations # c.decorations /\ s.w.decorations # s.n.decorations
    THEN [Call(s, e, "set_decorations") EXCEPT !.n.decorations = s.w.decorations]
    ELSE s

StepResizable(s, c, e) ==
    IF s.w.resizable # c.resizable /\ s.w.resizable # s.n.resizable
    THEN [Call(s, e, "set_resizable") EXCEPT !.n.resizable = s.w.resizable]
    ELSE s

\* take_maximize_request() empties the request whatever it held.
StepMaximize(s, e) ==
    IF s.w.maximize_request # "none"
    THEN [Call(s, e, "set_maximized") EXCEPT
              !.n.maximize_request = s.w.maximize_request,
              !.w.maximize_request = "none"]
    ELSE s

StepMinimize(s, e) ==
    IF s.w.minimize_request # "none"
    THEN [Call(s, e, "set_minimized") EXCEPT
              !.n.minimize_request = s.w.minimize_request,
              !.w.minimize_request = "none"]
    ELSE s

StepFocus(s, c, e) ==
    IF s.w.focused # c.focused /\ s.w.focused
    THEN [Call(s, e, "focus_window") EXCEPT !.n.focused = TRUE]
    ELSE s

StepTransparent(s, c, e) ==
    IF s.w.transparent # c.transparent
    THEN Warn([s EXCEPT !.w.transparent = c.transparent], e,
              "transparency cannot be updated")
    ELSE s

StepTheme(s, c, e) ==
    IF s.w.window_theme # c.window_theme
    THEN [Call(s, e, "set_theme") EXCEPT !.n.window_theme = s.w.window_theme]
    ELSE s

\* A variant of the loop body that takes the one-shot requests first.
ChangedWindow_requests_first(e, w, c, n, pe) ==
    LET s0 == [w |-> w, n |-> n, calls |-> <<>>, warns |-> <<>>, resized |-> <<>>]
        s1 == StepMinimize(StepMaximize(s0, e), e)
        s2 == StepMode(StepTitle(s1, c, e), c, e, pe)
        s3 == StepCursorPosition(StepResolution(s2, c, e, pe), c, e, pe)
        s4 == StepResizable(StepDecorations(StepHitTest(s3, c, e, pe), c, e), c, e)
    IN  StepTheme(StepTransparent(StepFocus(s4, c, e), c, e), c, e)

\* The loop body for one entity with a native window, in source order.
ChangedWindow(e, w, c, n, pe) ==
    LET s0 == [w |-> w, n |-> n, calls |-> <<>>, warns |-> <<>>, resized |-> <<>>]
        s1 == StepTitle(s0, c, e)
        s2 == StepMode(s1, c, e, pe)
        s3 == StepResolution(s2, c, e, pe)
        s4 == StepCursorPosition(s3, c, e, pe)
        s5 == StepHitTest(s4, c, e, pe)
        s6 == StepDecorations(s5, c, e)
        s7 == StepResizable(s6, c, e)
        s8 == StepMaximize(s7, e)
        s9 == StepMinimize(s8, e)
        s10 == StepFocus(s9, c, e)
        s11 == StepTransparent(s10, c, e)
    IN  StepTheme(s11, c, e)

\* A variant that diffs against the CachedWindow stored at creation.
CacheItem_created(e) == cachedWindow[e]

\* The `&mut Cached<Window>` item of the changed_windows query. Cached<T> is a
\* tuple struct with a private field and system.rs never constructs one, so
\* no entity carries the component: create_windows inserts CachedWindow.
CacheItem(e) == cache[e]

\* Query<(Entity, &mut Window, &mut Cached<Window>), Changed<Window>>
ChangedQuery ==
    {e \in Entities : window[e] # None /\ CacheItem(e) # None /\ e \in changed}

\* The entities the loop does not `continue` past.
Processed == {e \in ChangedQuery : get_window(e) # None}

RECURSIVE Concat(_, _, _)
\* f[e] for the entities of S in increasing order, concatenated.
Concat(f, S, from) ==
    IF \A e \in S : e < from THEN <<>>
    ELSE (IF from \in S THEN f[from] ELSE <<>>) \o Concat(f, S, from + 1)

\* The snapshot components an entity carries.
Snapshots(e) == Range(cachedWindow[e]) \cup Range(cache[e])

\* The entities a pass is about: record, native window and change flag.
Flagged == {e \in changed : window[e] # None /\ get_window(e) # None}

\* The native layer is asked only by a step that finds a difference; the
\* answers no flagged record can ask for are left at their defaults.
Asked(pe) ==
    LET Diff(F(_)) ==
            \E e \in Flagged : \E c \in Snapshots(e) : F(window[e][1]) # F(c)
        Mode(w) == w.mode
        Res(w) == w.resolution
        Pos(w) == w.cursor_position
        Hit(w) == w.hit_test
    IN  /\ Diff(Mode) \/ pe.monitor = NoEnv.monitor
        /\ Diff(Res) \/ pe.grant = NoEnv.grant
        /\ Diff(Pos) \/ pe.cursor_ok = NoEnv.cursor_ok
        /\ Diff(Hit) \/ pe.hittest_ok = NoEnv.hittest_ok

changed_windows ==
    /\ stage = "changed"
    /\ \E pe \in {x \in PassEnvs : Asked(x)} :
         LET R == [e \in Processed |->
                     ChangedWindow(e, window[e][1], CacheItem(e)[1],
                                   winit_windows[e][1], pe)]
         IN  /\ window' =
                  [e \in Entities |->
                      IF e \in Processed THEN Some(R[e].w) ELSE window[e]]
             /\ cache' =
                  [e \in Entities |->
                      IF e \in Processed THEN Some(R[e].w) ELSE cache[e]]
             /\ winit_windows' =
                  [e \in Entities |->
                      IF e \in Processed THEN Some(R[e].n) ELSE winit_windows[e]]
             /\ calls' = Concat([e \in Processed |-> R[e].calls], Processed, 1)
             /\ warnings' = Concat([e \in Processed |-> R[e].warns], Processed, 1)
             /\ resized' = Concat([e \in Processed |-> R[e].resized], Processed, 1)
             /\ env' = pe
    /\ changed' = {}
    /\ flagged' = Flagged
    /\ repeat' = {e \in Flagged : prevPass[e] = window[e]}
    /\ prevPass' =
         [e \in Entities |->
             IF window'[e] # None /\ get_window(e) # None THEN window'[e] ELSE None]
    /\ skipped' = {}
    /\ stage' = "hooks"
    /\ UNCHANGED << cachedWindow, alive, added, removed, ops,
                    created_events, closed_events, create_calls, destroy_calls,
                    spurious, hookvars >>

\* ----------------------------------------------------------- changed_hooks
\* The `&mut Cached<T>` item of the changed_hooks query: as with
\* Cached<Window>, nothing constructs the component.
HookCacheItem(e) == hookCache[e]

\* Query<(Entity, &mut T, &mut Cached<T>), Changed<T>>
HookQuery ==
    {e \in Entities : hook[e] # None /\ HookCacheItem(e) # None /\ e \in hook_changed}

\* The entities for which `winit_windows.get_window(entity)` is Some.
HookProcessed == {e \in HookQuery : get_window(e) # None}

\* T::changed_hook(&mut data, winit_window, &cache): the call is recorded
\* with the cached value it is given; the default body leaves data as it is.
changed_hook(e, cached) == << [w |-> e, cached |-> cached] >>

changed_hooks ==
    /\ stage = "hooks"
    /\ hook_calls' =
         Concat([e \in HookProcessed |-> changed_hook(e, HookCacheItem(e)[1])],
                HookProcessed, 1)
    /\ hookCache' =
         [e \in Entities |-> IF e \in HookProcessed THEN hook[e] ELSE hookCache[e]]
    /\ hook_changed' = {}
    /\ stage' = "despawn"
    /\ UNCHANGED << window, cachedWindow, cache, winit_windows, alive, changed,
                    added, removed, ops, created_events, closed_events,
                    create_calls, destroy_calls, logs, spurious, hook >>

\* ------------------------------------------------------------ the program
Next ==
    \/ \E e \in Entities : AppInsertWindow(e)
    \/ \E e \in Entities : AppRemoveWindow(e)
    \/ \E e \in Entities : AppDespawn(e)
    \/ \E e \in Entities : AppTouch(e)
    \/ \E e \in Entities : AppMutate(e)
    \/ \E e \in Entities : AppReplaceWindow(e)
    \/ \E e \in Entities : AppSetHook(e)
    \/ AppDone
    \/ create_windows
    \/ changed_windows
    \/ changed_hooks
    \/ despawn_windows

Spec == Init /\ [][Next]_vars

\* ------------------------------------------------------------- properties
\* The snapshot of an entity's record: the Cached<Window> a pass has written,
\* otherwise the CachedWindow that create_windows stored.
Snapshot(e) == IF cache[e] # None THEN cache[e] ELSE cachedWindow[e]

\* The native calls a pass issued for e.
CallsFor(cs, e) == {i \in 1..Len(cs) : cs[i].w = e}
Called(cs, e, name) == {i \in 1..Len(cs) : cs[i] = [w |-> e, call |-> name]}

\* The fields of a record that are pushed to or pulled from the native window.
Synced(w) ==
    << w.title, w.mode, w.resolution, w.cursor_position, w.hit_test,
       w.decorations, w.resizable, w.focused, w.transparent, w.window_theme >>

\* C1: when changed_windows runs on a window with a live native handle whose
\* record is as the previous run left it, the run issues no native call for
\* that window.
C1_Idempotent ==
    [][stage = "changed" =>
         \A e \in Entities :
             (window[e] # None /\ get_window(e) # None /\ prevPass[e] = window[e])
                 => CallsFor(calls', e) = {}]_vars

\* A second run has met a change-flagged record that the first run left as it
\* is and that differs from the record the window was created from.
C1_Witness ==
    /\ stage = "despawn"
    /\ \E e \in repeat : window[e] # cachedWindow[e]

\* C2: between cycles, the snapshot of every record with a live native handle
\* holds, field by field, the value last applied to or read from the native
\* window.
C2_SnapshotIsNative ==
    \A e \in Entities :
        (stage = "app" /\ window[e] # None /\ get_window(e) # None)
            => /\ Snapshot(e) # None
               /\ Synced(Snapshot(e)[1]) = Synced(get_window(e)[1])

\* A request to drop the focus has gone through a pass and is not in the
\* snapshot.
C2_Witness ==
    /\ stage = "app"
    /\ \E e \in Entities :
          /\ window[e] # None /\ get_window(e) # None /\ Snapshot(e) # None
          /\ e \notin changed
          /\ ~window[e][1].focused
          /\ Snapshot(e)[1].focused

\* C3: no identifier has more closed notifications than created ones; a record
\* added and removed before create_windows ran gets no closed notification.
C3_NoPhantomClose ==
    \A e \in Entities : closed_events[e] <= created_events[e]

\* C4: a removal notification for an identifier whose record exists again
\* leaves the registry entry and the closed notifications of that identifier
\* as they are.
C4_ReAddGuard ==
    [][stage = "despawn" =>
         \A e \in Range(removed) :
             window[e] # None
                 => /\ winit_windows'[e] = winit_windows[e]
                    /\ closed_events'[e] = closed_events[e]
                    /\ destroy_calls'[e] = destroy_calls[e]]_vars

\* despawn_windows has passed over the removal of a record that was added
\* again, and its native window is still registered.
C4_Witness ==
    /\ stage = "app"
    /\ \E e \in spurious : get_window(e) # None /\ window[e] # None

\* C5: create_windows leaves a registered identifier alone (no creation, no
\* snapshot written, no created notification); a native window leaves the
\* registry only in despawn_windows, once, with its record gone; and an
\* identifier has one native window more created than destroyed exactly
\* while one is registered.
C5_RegistryLifetime ==
    [][\A e \in Entities :
         /\ (stage = "create" /\ get_window(e) # None)
               => /\ winit_windows'[e] = winit_windows[e]
                  /\ cachedWindow'[e] = cachedWindow[e]
                  /\ cache'[e] = cache[e]
                  /\ created_events'[e] = created_events[e]
                  /\ create_calls'[e] = create_calls[e]
         /\ (winit_windows[e] # None /\ winit_windows'[e] = None)
               => /\ stage = "despawn"
                  /\ window[e] = None
                  /\ destroy_calls'[e] = destroy_calls[e] + 1
         /\ create_calls'[e] - destroy_calls'[e]
               = IF winit_windows'[e] # None THEN 1 ELSE 0]_vars

\* create_windows has skipped a registered identifier whose earlier native
\* window was destroyed.
C5_Witness ==
    /\ stage = "changed"
    /\ \E e \in skipped : destroy_calls[e] = 1 /\ create_calls[e] = 2

\* C6: a native handle whose record is gone has its removal notification
\* still unread, so the despawn_windows pass of the same cycle, which reads
\* every notification, leaves no handle without a record.
C6_NoOrphan ==
    \A e \in Entities :
        (get_window(e) # None /\ window[e] = None) => e \in Range(removed)

\* A record with a native window was removed and the window destroyed.
C6_Witness ==
    /\ stage = "app"
    /\ \E e \in Entities :
          destroy_calls[e] = 1 /\ window[e] = None /\ get_window(e) = None

\* C7: when a flagged record's resolution differs from the snapshot's and the
\* native layer grants a size other than the requested one, the pass leaves
\* the record and the snapshot at the granted size and sends one resized
\* notification carrying it.
C7_ResizeFeedback ==
    [][stage = "changed" =>
         \A e \in Flagged :
             (/\ Snapshot(e) # None
              /\ window[e][1].resolution # Snapshot(e)[1].resolution
              /\ env'.grant \notin {0, window[e][1].resolution.size})
                 => /\ window'[e][1].resolution.size = env'.grant
                    /\ Snapshot(e)' = window'[e]
                    /\ Len(resized') = 1
                    /\ resized'[1] = [w |-> e, size |-> env'.grant]]_vars

\* C8: a pass over a flagged record whose transparency differs from the
\* snapshot's sets it back to the snapshot's value with a warning and no
\* native call, and the snapshot's transparency stays.
C8_TransparentReverted ==
    [][stage = "changed" =>
         \A e \in Flagged :
             (/\ Snapshot(e) # None
              /\ window[e][1].transparent # Snapshot(e)[1].transparent)
                 => /\ window'[e][1].transparent = Snapshot(e)[1].transparent
                    /\ Snapshot(e)'[1].transparent = Snapshot(e)[1].transparent
                    /\ \E i \in 1..Len(warnings') : warnings'[i].w = e]_vars

\* C9: a pass calls focus_window for a window only when the record's focused
\* is true and differs from the snapshot's; a record whose focused is false
\* gets no focus call and stays false.
C9_MonotonicFocus ==
    [][stage = "changed" =>
         \A e \in Entities :
             window[e] # None
                 => /\ Called(calls', e, "focus_window") # {}
                         => /\ window[e][1].focused
                            /\ Snapshot(e) # None
                            /\ Snapshot(e)[1].focused # window[e][1].focused
                    /\ ~window[e][1].focused
                         => /\ Called(calls', e, "focus_window") = {}
                            /\ window'[e] # None
                            /\ ~window'[e][1].focused]_vars

\* A pass has met a flagged record whose focused went from true to false.
C9_Witness ==
    /\ stage = "despawn"
    /\ \E e \in flagged :
          /\ window[e] # None /\ Snapshot(e) # None
          /\ ~window[e][1].focused
          /\ Snapshot(e)[1].focused

\* C10: a pass over a flagged record with a pending maximize (minimize)
\* request calls set_maximized (set_minimized) once and leaves the request
\* empty.
C10_OneShot ==
    [][stage = "changed" =>
         \A e \in Flagged :
             /\ window[e][1].maximize_request # "none"
                   => /\ Cardinality(Called(calls', e, "set_maximized")) = 1
                      /\ window'[e][1].maximize_request = "none"
             /\ window[e][1].minimize_request # "none"
                   => /\ Cardinality(Called(calls', e, "set_minimized")) = 1
                      /\ window'[e][1].minimize_request = "none"]_vars

\* C11: a pass that meets a flagged record whose mode is an exclusive
\* fullscreen mode the native window does not have, with no current monitor,
\* issues no set_fullscreen call and leaves the mode as requested; and once
\* a pass has left the request pending, a later pass over the flagged record
\* with a current monitor gives the native window the requested mode.
C11_DeferredFullscreen ==
    [][stage = "changed" =>
         \A e \in Flagged :
             (/\ window[e][1].mode \in {"Fullscreen", "SizedFullscreen"}
              /\ get_window(e)[1].mode # window[e][1].mode)
                 => /\ ~env'.monitor
                         => /\ Called(calls', e, "set_fullscreen") = {}
                            /\ window'[e][1].mode = window[e][1].mode
                    /\ (prevPass[e] = window[e] /\ env'.monitor)
                         => winit_windows'[e][1].mode = window[e][1].mode]_vars

\* The fields of a record that the application alone sets before creation.
Built(w) ==
    << w.title, w.mode, w.resolution.size, w.cursor_position, w.hit_test,
       w.decorations, w.resizable, w.focused, w.transparent >>

C13_AtMostOnce ==
    [][\A e \in Entities :
         /\ stage = "create"
               => /\ created_events'[e] - created_events[e] <= 1
                  /\ create_calls'[e] - create_calls[e]
                        = IF winit_windows[e] = None /\ winit_windows'[e] # None
                          THEN 1 ELSE 0
         /\ stage = "despawn" => closed_events'[e] - closed_events[e] <= 1
         /\ stage = "changed"
               => Cardinality({i \in 1..Len(resized') : resized'[i].w = e}) <= 1]_vars

\* C14: a pass diffs every flagged record that create_windows gave a
\* snapshot against that snapshot, and a record that holds nothing but what
\* the subsystem wrote (it equals its snapshot) gets no native call: the
\* values read back at creation cause no call in the first pass after it.
C14_NoFeedback ==
    [][stage = "changed" =>
         \A e \in Flagged :
             cachedWindow[e] # None
                 => /\ e \in Processed
                    /\ CacheItem(e) = Snapshot(e)
                    /\ window[e] = Snapshot(e) => CallsFor(calls', e) = {}]_vars

\* C15: after a pass, the snapshot of every flagged record with a live
\* native handle equals the record as the pass leaves it, whatever the native
\* layer answered.
C15_SnapshotRefreshed ==
    [][stage = "changed" =>
         \A e \in Flagged : Snapshot(e)' = window'[e]]_vars

\* C16: a pass over a flagged record whose hit_test differs from the
\* snapshot's calls set_cursor_hittest; if the call fails the record's
\* hit_test goes back to the snapshot's value with a warning, if it succeeds
\* the native window takes the requested value; either way record and
\* snapshot agree on hit_test afterwards.
C16_HitTestRejected ==
    [][stage = "changed" =>
         \A e \in Flagged :
             (/\ Snapshot(e) # None
              /\ window[e][1].hit_test # Snapshot(e)[1].hit_test)
                 => /\ Cardinality(Called(calls', e, "set_cursor_hittest")) = 1
                    /\ Snapshot(e)'[1].hit_test = window'[e][1].hit_test
                    /\ IF env'.hittest_ok
                       THEN /\ window'[e][1].hit_test = window[e][1].hit_test
                            /\ winit_windows'[e][1].hit_test = window[e][1].hit_test
                       ELSE /\ window'[e][1].hit_test = Snapshot(e)[1].hit_test
                            /\ \E i \in 1..Len(warnings') : warnings'[i].w = e]_vars

\* The native calls of the loop body for the fields it handles before the
\* one-shot requests, and for those it handles after them.
EarlyCalls ==
    {"set_title", "set_fullscreen", "request_inner_size", "set_cursor_position",
     "set_cursor_hittest", "set_decorations", "set_resizable"}
LateCalls == {"focus_window", "set_theme"}
OneShotCalls == {"set_maximized", "set_minimized"}

\* The entities the loop body can be applied to: record, snapshot, handle.
Reconcilable ==
    {e \in Entities : window[e] # None /\ Snapshot(e) # None /\ get_window(e) # None}

\* The native calls the loop body makes for e against its snapshot.
BodyCalls(e, pe) ==
    ChangedWindow(e, window[e][1], Snapshot(e)[1], get_window(e)[1], pe).calls

\* Some call of A comes before some call of B in cs.
Before(cs, A, B) ==
    \E i, j \in 1..Len(cs) : i < j /\ cs[i].call \in A /\ cs[j].call \in B

C18_DoubleCheck ==
    [][stage = "changed" =>
         \A e \in Flagged :
             Snapshot(e) # None
                 => LET w == window[e][1]
                        c == Snapshot(e)[1]
                        n == get_window(e)[1]
                    IN  /\ Called(calls', e, "set_decorations") # {}
                              <=> (w.decorations # c.decorations
                                     /\ w.decorations # n.decorations)
                        /\ Called(calls', e, "set_resizable") # {}
                              <=> (w.resizable # c.resizable
                                     /\ w.resizable # n.resizable)
                        /\ Snapshot(e)'[1].decorations = w.decorations
                        /\ Snapshot(e)'[1].resizable = w.resizable]_vars

\* C19: changed_hooks calls changed_hook once for every changed hook
\* component on an entity with a native window, hands it the cached value as
\* it was before the pass, and leaves the hook's cache equal to the hook.
C19_HookDiff ==
    [][stage = "hooks" =>
         \A e \in hook_changed :
             (hook[e] # None /\ get_window(e) # None)
                 => /\ Cardinality({i \in 1..Len(hook_calls') : hook_calls'[i].w = e}) = 1
                    /\ \A i \in 1..Len(hook_calls') :
                           hook_calls'[i].w = e => Some(hook_calls'[i].cached) = hookCache[e]
                    /\ hookCache'[e] = hook'[e]]_vars

\* C20: a pass that meets a change-flagged record without a native window
\* makes no native call, logs and sends nothing for it, and leaves the
\* record (its pending requests included), its snapshots and the registry as
\* they are; and a removal notification for an identifier without a native
\* window leaves the registry without one and destroys nothing.
C20_MissingHandle ==
    [][/\ stage = "changed" =>
            \A e \in changed :
                (window[e] # None /\ get_window(e) = None)
                    => /\ CallsFor(calls', e) = {}
                       /\ \A i \in 1..Len(warnings') : warnings'[i].w # e
                       /\ \A i \in 1..Len(resized') : resized'[i].w # e
                       /\ window'[e] = window[e]
                       /\ cachedWindow'[e] = cachedWindow[e]
                       /\ cache'[e] = cache[e]
                       /\ winit_windows'[e] = None
       /\ stage = "despawn" =>
            \A e \in Range(removed) :
                get_window(e) = None
                    => /\ winit_windows'[e] = None
                       /\ destroy_calls'[e] = destroy_calls[e]]_vars

\* A pass has run over a record that never had a native window and whose
\* maximize request was pending, and the request is still pending.
C20_Witness ==
    /\ stage = "hooks"
    /\ \E e \in Entities :
          /\ window[e] # None /\ get_window(e) = None
          /\ create_calls[e] = 0
          /\ window[e][1].maximize_request # "none"

====
